---- MODULE Spec2Model ----
(***************************************************************************)
(* Model of the dchat Python SDK's confirmation tracking:                  *)
(*   - BlockchainClient.wait_for_confirmation with its transaction cache   *)
(*     (sdk/python/dchat/blockchain/client.py),                            *)
(*   - ChatChainClient / CurrencyChainClient.wait_for_confirmation         *)
(*     (chat_chain.py, currency_chain.py),                                 *)
(*   - CrossChainBridge.wait_for_atomic_completion (cross_chain.py),       *)
(*   - BlockchainClient._submit_transaction.                               *)
(*                                                                         *)
(* Every wait is a coroutine.  The code between two awaits runs without    *)
(* interleaving (one asyncio event loop), so one action is the code from   *)
(* one await to the next: the call up to its first request, the handling   *)
(* of one response up to the sleep, the wake-up up to the next request.    *)
(* The HTTP transport is the external ledger gateway: what it answers to   *)
(* a request is an input, drawn from the answers the code distinguishes.   *)
(* An Optional value of the code is a set with at most one element.        *)
(* Time is in seconds.                                                     *)
(***************************************************************************)
EXTENDS Integers, FiniteSets, Sequences, TLC

\* ---------------------------------------------------------------- bounds
MaxTime == 1
\* transactions submitted to the test ledger, and how far its chain advances
MaxTxs == 2
MaxBlock == 4
\* how far the wall clock is set off the monotonic clock
MaxSkew == 1

Waiters == {"w1", "w2"}
TxIds == {"t1", "t2"}
\* the cross-chain id the bridge waits are about
BridgeTxIds == {"x1"}
\* confirmation_timeout values (seconds) a client is configured with
Timeouts == {0, 3}
\* confirmation_timeout and max_wait_ms values that allow no time at all
ExpiredTimeouts == {-1, 0}
ExpiredWaits == {-1000, 0}
\* a confirmation_timeout that leaves room for three polls, two seconds apart
LongTimeout == 5
\* max_wait_ms values a chain or bridge wait is called with
MaxWaits == {0, 2000}
\* confirmations thresholds a chain wait is called with
Thresholds == {1, 2}
\* confirmation_threshold values the test ledger is built with
LedgerThresholds == {0, 2, 6}
\* count values advance_blocks is called with
Counts == {-1, 0, 1, 2}

None == {}

\* ------------------------------------------------------- program constants
\* asyncio.sleep(2) of BlockchainClient.wait_for_confirmation
ClientPollInterval == 2
\* asyncio.sleep(1) of the chain and bridge waits
ChainPollInterval == 1
\* BlockchainConfig.max_retries
max_retries == 3
\* MockBlockchainPython.__init__(confirmation_threshold = 6)
DefaultThreshold == 6

\* --------------------------------------------------------------- data model
\* TransactionReceipt.error: None, the empty string, or a reason
Errors == {"None", "", "e1"}
\* TransactionReceipt, reduced to the two fields the tracker reads
TransactionReceipt == [success : BOOLEAN, error : Errors]
\* Python truthiness of an Optional[str]
Truthy(s) == s \notin {"None", ""}

\* CrossChainStatus.value
CrossChainStatus ==
    {"pending", "chat_chain_confirmed", "currency_chain_confirmed",
     "atomic_success", "rolled_back", "failed"}
\* CrossChainTransaction, reduced to the fields a claim reads
CrossChainTransaction ==
    [status : CrossChainStatus,
     chat_chain_tx : {"None", "c1"},
     currency_chain_tx : {"None", "u1"},
     finalized_at : {"None", "set"}]
\* ChatChainTransaction / CurrencyChainTransaction, reduced to status and count
ChainStatus == {"pending", "confirmed", "failed"}
ChainTransaction == [status : ChainStatus, confirmations : 0..2]


\* ------------------------------------------------------------ gateway inputs
\* What the JSON-RPC endpoint can answer to eth_getTransactionReceipt: the
\* request fails (a network error), a non-200 status, or 200 with a result
\* that is null/absent or a receipt.
ClientResponses ==
    {[kind |-> "neterr", status |-> 0, result |-> None],
     [kind |-> "http", status |-> 404, result |-> None],
     [kind |-> "http", status |-> 500, result |-> None],
     [kind |-> "http", status |-> 200, result |-> None]}
    \cup {[kind |-> "http", status |-> 200, result |-> {r}] : r \in TransactionReceipt}

\* What a chain endpoint can answer to GET /chat/transaction/{id} or
\* /currency/transaction/{id}.
ChainResponses ==
    {[kind |-> "neterr", status |-> 0, result |-> None],
     [kind |-> "http", status |-> 404, result |-> None],
     [kind |-> "http", status |-> 500, result |-> None]}
    \cup {[kind |-> "http", status |-> 200, result |-> {t}] : t \in ChainTransaction}

\* The transactions the bridge reports.  The client reads the other fields of
\* a transaction only once it returns it, which it does on atomic_success, so
\* one transaction stands for each other status.
ReportedTransactions ==
    {t \in CrossChainTransaction :
        \/ t.status = "atomic_success"
        \/ t.chat_chain_tx = "None" /\ t.currency_chain_tx = "None"
              /\ t.finalized_at = "None"}

\* What the bridge can answer to GET /status/{bridge_tx_id}.
BridgeResponses ==
    {[kind |-> "neterr", status |-> 0, result |-> None],
     [kind |-> "http", status |-> 404, result |-> None],
     [kind |-> "http", status |-> 500, result |-> None]}
    \cup {[kind |-> "http", status |-> 200, result |-> {t}] : t \in ReportedTransactions}

\* What the JSON-RPC endpoint can answer to a dchat_* submission.
SubmitResponses ==
    {[kind |-> "neterr", status |-> 0, body |-> "none", tx_id |-> "None"],
     [kind |-> "http", status |-> 500, body |-> "none", tx_id |-> "None"],
     [kind |-> "http", status |-> 200, body |-> "error", tx_id |-> "None"]}
    \cup {[kind |-> "http", status |-> 200, body |-> "result", tx_id |-> t] : t \in TxIds}

\* The outcome of the chat-chain leg and of the currency-chain leg of the
\* cross-chain operation on their ledgers: the bridge knows it, the client
\* sees only what the bridge reports.
Legs == [chat : {"success", "failed"}, currency : {"success", "failed"}]
NoLegs == [chat |-> "none", currency |-> "none"]

\* The client classes with a wait loop, the ledger of the tests, and the
\* UserManager, whose facades drive a BlockchainClient of their own.
Clients ==
    {"BlockchainClient", "ChatChainClient", "CurrencyChainClient", "CrossChainBridge",
     "MockBlockchainPython", "UserManager"}

\* ------------------------------------------------ the ledger of the tests
\* Transaction of integration_test.py, reduced to the fields the ledger reads
\* or writes; its tx_id is its place in the dictionary.
LedgerStatus == {"Pending", "Confirmed", "Failed"}
TxTypes == {"RegisterUser", "SendDirectMessage"}
Senders == {"alice", "bob"}

\* MockBlockchainPython.__init__
NewLedger(confirmation_threshold) ==
    [transactions |-> <<>>, current_block |-> 1,
     confirmation_threshold |-> confirmation_threshold]

\* What the tests did to a ledger that is new or was just reset: nothing
\* submitted, no block advanced.
NoCalls == [submitted |-> <<>>, advanced |-> 0]

\* ------------------------------------------------------------------- state
VARIABLES
    now,                \* the clock the waits read, in seconds
    config,             \* BlockchainConfig of the client
    transaction_cache,  \* BlockchainClient._transaction_cache
    wait,               \* the frame of each wait coroutine
    gateway,            \* the requests in flight at the ledger gateway
    client,             \* the client object whose calls the behaviour follows
    legs,               \* how the two legs of the cross-chain operation end
    ledger,             \* the MockBlockchainPython of the integration tests
    wall_offset,        \* what the wall clock (time.time) is ahead of the monotonic one
    calls               \* the calls the tests made on the ledger since it was new or reset

vars ==
    <<now, config, transaction_cache, wait, gateway, client, legs, ledger, wall_offset,
      calls>>

\* time.time(): the wall clock, in seconds.  asyncio's loop.time() and
\* asyncio.sleep follow the monotonic clock, which is now.
time_time == now + wall_offset

\* How a call ends: a returned value, or the exception type raised with what
\* its message carries.
NoOutcome == [type |-> "none", value |-> None, msg |-> ""]
Return(v) == [type |-> "return", value |-> {v}, msg |-> ""]
Raise(type, msg) == [type |-> type, value |-> None, msg |-> msg]

\* A coroutine frame before any call.
IdleFrame ==
    [pc |-> "idle", kind |-> "client", tx_id |-> "t1", deadline |-> 0,
     start_time |-> 0, max_wait_ms |-> 0, confirmations |-> 0, wake |-> 0,
     outcome |-> NoOutcome, polls |-> 0, status |-> "None",
     saw_error |-> FALSE, saw_terminal |-> FALSE, called_at |-> 0,
     answers |-> 0, submitted |-> 0, response |-> None]

\* A facade that reports every transaction as confirmed.
FacadeResponse_Confirmed(tx_id, receipt) ==
    [tx_id |-> tx_id, on_chain_confirmed |-> TRUE]

\* UserManager.create_user and the other facades: what the response says of
\* the ledger (CreateUserResponse, DirectMessageResponse, CreateChannelResponse).
FacadeResponse(tx_id, receipt) ==
    [tx_id |-> tx_id, on_chain_confirmed |-> receipt.success]

\* What a UserManager facade hands to its caller when the call of frame f
\* ends in out: a response after a returned wait, nothing after an exception.
\* A call made on the client directly has no facade above it.
Responded(f, out) ==
    IF f.submitted > 0 /\ f.tx_id # "None" /\ out.type = "return"
    THEN {FacadeResponse(f.tx_id, CHOOSE receipt \in out.value : TRUE)}
    ELSE None

\* A call that ended: its locals are gone, its outcome is with the caller.
Ended(f, out) ==
    [f EXCEPT !.pc = "done", !.outcome = out, !.deadline = 0, !.start_time = 0,
              !.max_wait_ms = 0, !.wake = 0, !.called_at = 0,
              !.response = Responded(f, out)]

\* A tracker that polls by sending the submission again.
PollRequest_Resubmits(w, f) ==
    [by |-> w,
     method |-> CASE f.kind = "client" -> "dchat_register_user"
                  [] f.kind = "is_confirmed" -> "eth_getTransactionReceipt"
                  [] f.kind = "chat" -> "GET /chat/transaction"
                  [] f.kind = "currency" -> "GET /currency/transaction"
                  [] OTHER -> "GET /status",
     tx_id |-> f.tx_id]

\* The request a wait of each kind sends on a poll.
PollRequest(w, f) ==
    [by |-> w,
     method |-> CASE f.kind = "client" -> "eth_getTransactionReceipt"
                  [] f.kind = "is_confirmed" -> "eth_getTransactionReceipt"
                  [] f.kind = "chat" -> "GET /chat/transaction"
                  [] f.kind = "currency" -> "GET /currency/transaction"
                  [] OTHER -> "GET /status",
     tx_id |-> f.tx_id]

\* What a poll's answer was, for the claims that speak of the poll results.
Tag(resp) ==
    IF resp.kind = "neterr" THEN "neterr"
    ELSE IF resp.status = 404 THEN "http404"
    ELSE IF resp.status # 200 THEN "http5xx"
    ELSE IF resp.result = None THEN "null"
    ELSE "body"

Init ==
    /\ now = 0
    /\ config \in [confirmation_timeout : Timeouts]
    /\ transaction_cache = [id \in TxIds |-> None]
    /\ wait = [w \in Waiters |-> IdleFrame]
    /\ gateway = {}
    /\ client \in Clients
    /\ legs \in IF client = "CrossChainBridge" THEN Legs ELSE {NoLegs}
    /\ wall_offset = 0
    /\ calls = NoCalls
    /\ ledger \in IF client = "MockBlockchainPython"
                  THEN {NewLedger(t) : t \in LedgerThresholds}
                  ELSE {NewLedger(DefaultThreshold)}


\* ------------------------------------------------- BlockchainClient (client.py)
\* A fetch that takes a network error for the transaction's failure.
get_transaction_receipt_ErrorFails(resp) ==
    IF resp.kind = "neterr" THEN {[success |-> FALSE, error |-> "e1"]}
    ELSE IF resp.status # 200 THEN None
    ELSE resp.result

\* get_transaction_receipt: any exception and any non-200 status give None,
\* a 200 answer gives the receipt built from a truthy "result", else None.
get_transaction_receipt(resp) ==
    IF resp.kind = "neterr" THEN None
    ELSE IF resp.status # 200 THEN None
    ELSE resp.result

\* A cache check that takes whatever receipt the cache holds for the id.
CachedTerminal_AnyReceipt(cache, tx_id) == cache[tx_id]

\* wait_for_confirmation, the cache check: the cached receipt when the id is
\* in the cache and the receipt has success or a truthy error.
CachedTerminal(cache, tx_id) ==
    {cached \in cache[tx_id] : cached.success \/ Truthy(cached.error)}

\* wait_for_confirmation, what the cache check hands back to the caller.
CacheHitOutcome(cached) == Return(cached)

\* A cache with one slot shared by every id.
CachePut_AllIds(cache, tx_id, receipt) == [id \in DOMAIN cache |-> {receipt}]

\* A cache write that drops the entries of the other ids.
CachePut_Evicting(cache, tx_id, receipt) ==
    [id \in DOMAIN cache |-> IF id = tx_id THEN {receipt} ELSE None]

\* wait_for_confirmation: self._transaction_cache[tx_id] = receipt
CachePut(cache, tx_id, receipt) == [cache EXCEPT ![tx_id] = {receipt}]

\* A loop that gives up on the first receipt that is not a success.
ReceiptOutcome_PendingFails(receipt) ==
    IF receipt.success THEN Return(receipt)
    ELSE Raise("Exception", receipt.error)

\* A loop that looks at the error of a receipt before its success.
ReceiptOutcome_ErrorFirst(receipt) ==
    IF Truthy(receipt.error) THEN Raise("Exception", receipt.error)
    ELSE IF receipt.success THEN Return(receipt)
    ELSE NoOutcome

\* A loop that goes on polling after a success receipt.
ReceiptOutcome_SuccessIgnored(receipt) ==
    IF ~receipt.success /\ Truthy(receipt.error) THEN Raise("Exception", receipt.error)
    ELSE NoOutcome

\* wait_for_confirmation: how the loop acts on a fetched receipt.
ReceiptOutcome(receipt) ==
    IF receipt.success THEN Return(receipt)
    ELSE IF Truthy(receipt.error) THEN Raise("Exception", receipt.error)
    ELSE NoOutcome

\* A check that takes any receipt for a confirmation.
is_transaction_confirmed_AnyReceipt(resp) == get_transaction_receipt(resp) # None

\* is_transaction_confirmed: receipt.success if receipt else False
is_transaction_confirmed(resp) ==
    LET receipt == get_transaction_receipt(resp)
    IN  IF receipt = None THEN FALSE ELSE (CHOOSE r \in receipt : TRUE).success

\* int(data["result"], 16) on the block numbers the endpoint is taken to send.
HexNumbers == {"0x0", "0x1", "0xa", "0x10"}
int16(hex) ==
    CASE hex = "0x0" -> 0
      [] hex = "0x1" -> 1
      [] hex = "0xa" -> 10
      [] hex = "0x10" -> 16

\* What the JSON-RPC endpoint can answer to eth_blockNumber.
BlockNumberResponses ==
    {[kind |-> "neterr", status |-> 0, result |-> "none"],
     [kind |-> "http", status |-> 500, result |-> "none"],
     [kind |-> "http", status |-> 200, result |-> "none"]}
    \cup {[kind |-> "http", status |-> 200, result |-> hex] : hex \in HexNumbers}

\* get_block_number: a network error propagates, a non-200 status raises, an
\* answer without a "result" raises KeyError, else the number is parsed.
get_block_number(resp) ==
    IF resp.kind = "neterr" THEN Raise("ClientError", "")
    ELSE IF resp.status # 200 THEN Raise("Exception", "Failed to get block number")
    ELSE IF resp.result = "none" THEN Raise("KeyError", "result")
    ELSE Return(int16(resp.result))

\* wait_for_confirmation: while loop.time() < deadline
ClientLoopOpen(t, deadline) == t < deadline

\* A submission that reads the result of an answer without looking for its
\* "error" member.
submit_transaction_ErrorUnread(resp) ==
    IF resp.kind = "neterr" THEN Raise("ClientError", "")
    ELSE IF resp.status # 200 THEN Raise("Exception", "Failed to submit transaction")
    ELSE Return(IF resp.body = "error" THEN "t1" ELSE resp.tx_id)

\* _submit_transaction: a network error propagates, a non-200 status and an
\* "error" member raise, else the tx_id of the result is returned.
submit_transaction(resp) ==
    IF resp.kind = "neterr" THEN Raise("ClientError", "")
    ELSE IF resp.status # 200 THEN Raise("Exception", "Failed to submit transaction")
    ELSE IF resp.body = "error" THEN Raise("Exception", "RPC error")
    ELSE Return(resp.tx_id)

\* The JSON-RPC methods of register_user, send_direct_message, create_channel
\* and post_to_channel.
SubmitMethods ==
    {"dchat_register_user", "dchat_send_direct_message",
     "dchat_create_channel", "dchat_post_to_channel"}

\* ------------------------------------- chain clients (chat_chain.py, currency_chain.py)
\* ChatChainClient.get_transaction: 404 gives None, raise_for_status turns any
\* other error status into an httpx.HTTPError, which like a transport error
\* gives None.
chat_get_transaction(resp) ==
    IF resp.kind = "neterr" THEN None
    ELSE IF resp.status = 404 THEN None
    ELSE IF resp.status # 200 THEN None
    ELSE resp.result

\* CurrencyChainClient.get_transaction
currency_get_transaction(resp) ==
    IF resp.kind = "neterr" THEN None
    ELSE IF resp.status = 404 THEN None
    ELSE IF resp.status # 200 THEN None
    ELSE resp.result

\* A test that takes any fetched transaction for a confirmed one.
ChatConfirmed_AnyCount(tx, confirmations) == tx

\* ChatChainClient.wait_for_confirmation: if tx and tx.confirmations >= confirmations
ChatConfirmed(tx, confirmations) == {t \in tx : t.confirmations >= confirmations}

\* A test that wants more confirmations than were asked for.
CurrencyConfirmed_Above(tx, confirmations) == {t \in tx : t.confirmations > confirmations}

\* CurrencyChainClient.wait_for_confirmation: the same test
CurrencyConfirmed(tx, confirmations) == {t \in tx : t.confirmations >= confirmations}

\* A loop that is still open when exactly the time allowed has passed.
ChainLoopOpen_Inclusive(t, start_time, max_wait_ms) == (t - start_time) * 1000 <= max_wait_ms

\* while (time.time() - start_time) * 1000 < max_wait_ms
ChainLoopOpen(t, start_time, max_wait_ms) == (t - start_time) * 1000 < max_wait_ms

\* --------------------------------------------- CrossChainBridge (cross_chain.py)
\* A status query that takes not-found for the operation's failure.
get_status_NotFoundFails(resp) ==
    IF resp.kind = "neterr" THEN None
    ELSE IF resp.status = 404
         THEN {[status |-> "failed", chat_chain_tx |-> "None",
                currency_chain_tx |-> "None", finalized_at |-> "None"]}
    ELSE IF resp.status # 200 THEN None
    ELSE resp.result

\* get_status
get_status(resp) ==
    IF resp.kind = "neterr" THEN None
    ELSE IF resp.status = 404 THEN None
    ELSE IF resp.status # 200 THEN None
    ELSE resp.result

\* A test that takes the first confirmed leg for the whole operation.
AtomicSuccess_OneLeg(tx) ==
    {t \in tx : t.status \in {"atomic_success", "chat_chain_confirmed"}}

\* A test that knows failed but not rolled_back.
AtomicFailure_FailedOnly(tx) == {t \in tx : t.status = "failed"}

\* wait_for_atomic_completion: if tx and tx.status == ATOMIC_SUCCESS.value
AtomicSuccess(tx) == {t \in tx : t.status = "atomic_success"}

\* wait_for_atomic_completion: if tx and tx.status in [FAILED.value, ROLLED_BACK.value]
AtomicFailure(tx) == {t \in tx : t.status \in {"failed", "rolled_back"}}

\* wait_for_atomic_completion: what the loop does with a polled status.
BridgeOutcome(tx) ==
    IF AtomicSuccess(tx) # {} THEN Return(CHOOSE t \in tx : TRUE)
    ELSE IF AtomicFailure(tx) # {}
         THEN Raise("RuntimeError", (CHOOSE t \in tx : TRUE).status)
    ELSE NoOutcome


\* ----------------------------------------------------------------- actions
\* The coroutines that call into the client: two for the clients whose waits
\* can meet (in the cache, or on one cross-chain id), one for the chain
\* clients, whose waits share nothing.
Callers ==
    IF client \in {"BlockchainClient", "CrossChainBridge"} THEN Waiters ELSE {"w1"}

Callable(w) == w \in Callers /\ wait[w].pc \in {"idle", "done"} /\ now <= MaxTime

\* The frame of a new call.
NewFrame(kind, tx_id) ==
    [IdleFrame EXCEPT !.kind = kind, !.tx_id = tx_id]

\* A loop that is never left through its condition: at the end of the time
\* allowed the coroutine stays where it is.
LoopHead_NoTimeout(w, f, g, open) ==
    IF open
    THEN /\ wait' = [wait EXCEPT ![w] = [f EXCEPT !.pc = "fetching",
                                                  !.polls = f.polls + 1]]
         /\ gateway' = g \cup {PollRequest(w, f)}
    ELSE /\ wait' = [wait EXCEPT ![w] = [f EXCEPT !.pc = "sleeping"]]
         /\ gateway' = g

\* The top of a wait loop, reached by frame f with g the requests in flight:
\* the next poll is sent while the loop condition holds, else TimeoutError.
LoopHead(w, f, g, open) ==
    IF open
    THEN /\ wait' = [wait EXCEPT ![w] = [f EXCEPT !.pc = "fetching",
                                                  !.polls = f.polls + 1]]
         /\ gateway' = g \cup {PollRequest(w, f)}
    ELSE /\ wait' = [wait EXCEPT ![w] = Ended(f, Raise("TimeoutError", ""))]
         /\ gateway' = g

\* await asyncio.sleep(interval) after a poll that decided nothing.
Sleep(w, f, g, interval) ==
    /\ wait' = [wait EXCEPT ![w] = [f EXCEPT !.pc = "sleeping",
                                             !.wake = now + interval]]
    /\ gateway' = g

\* Whether the answer to a poll shows the ledger's final word on the
\* transaction: a receipt with success or an error, a chain transaction that
\* failed or has the confirmations asked for, a terminal cross-chain status.
TerminalReceipt(r) == r.success \/ Truthy(r.error)
TerminalAnswer(f, resp) ==
    /\ Tag(resp) = "body"
    /\ LET b == CHOOSE t \in resp.result : TRUE
       IN  CASE f.kind \in {"client", "is_confirmed"} -> TerminalReceipt(b)
             [] f.kind = "bridge" -> b.status \in {"atomic_success", "rolled_back", "failed"}
             [] OTHER -> b.status = "failed" \/ b.confirmations >= f.confirmations

\* The frame after the answer resp to its poll was read.
Polled(f, resp) ==
    [f EXCEPT !.answers = f.answers + 1,
              !.saw_error = f.saw_error \/ Tag(resp) \in {"neterr", "http5xx"},
              !.saw_terminal = f.saw_terminal \/ TerminalAnswer(f, resp),
              !.status = IF Tag(resp) # "body" THEN f.status
                         ELSE LET b == CHOOSE t \in resp.result : TRUE
                              IN  IF f.kind \notin {"client", "is_confirmed"} THEN b.status
                                  ELSE IF b.success THEN "success"
                                  ELSE IF Truthy(b.error) THEN "failed"
                                  ELSE "pending"]

\* The outcomes of the calls that ended on a terminal receipt they fetched for
\* tx_id (kept for the claims about later calls).
Observed(tx_id) ==
    {wait[v].outcome : v \in {u \in Waiters :
        /\ wait[u].pc = "done" /\ wait[u].kind = "client" /\ wait[u].tx_id = tx_id
        /\ wait[u].polls > 0 /\ wait[u].outcome.type \in {"return", "Exception"}}}

\* BlockchainClient.wait_for_confirmation(tx_id), from the call to its first
\* await: the cache check, the deadline, the first test of the loop.
ClientCall(w, tx_id, g) ==
    LET f == [NewFrame("client", tx_id) EXCEPT
                 !.submitted = IF wait[w].pc = "submitting" THEN wait[w].submitted ELSE 0]
        hit == CachedTerminal(transaction_cache, tx_id)
        deadline == now + config.confirmation_timeout
    IN  IF hit # {}
        THEN /\ wait' = [wait EXCEPT ![w] =
                            Ended([f EXCEPT !.saw_terminal = TRUE],
                                  CacheHitOutcome(CHOOSE c \in hit : TRUE))]
             /\ gateway' = g
        ELSE LoopHead(w, [f EXCEPT !.deadline = deadline, !.called_at = now], g,
                      ClientLoopOpen(now, deadline))

\* A caller awaits wait_for_confirmation(tx_id) on the client.
WaitForConfirmation(w, tx_id) ==
    /\ client = "BlockchainClient"
    /\ Callable(w)
    /\ ClientCall(w, tx_id, gateway)
    /\ UNCHANGED <<now, config, transaction_cache, client, legs, ledger, wall_offset, calls>>

\* The answer to a receipt fetch arrives: the receipt is cached, a success is
\* returned, an error raised, anything else sleeps two seconds.
ClientReceipt(w, resp) ==
    /\ wait[w].pc = "fetching" /\ wait[w].kind = "client"
    /\ LET f == Polled(wait[w], resp)
           g == gateway \ {PollRequest(w, wait[w])}
           receipt == get_transaction_receipt(resp)
           out == IF receipt = None THEN NoOutcome
                  ELSE ReceiptOutcome(CHOOSE r \in receipt : TRUE)
       IN  /\ transaction_cache' =
                 IF receipt = None THEN transaction_cache
                 ELSE CachePut(transaction_cache, f.tx_id, CHOOSE r \in receipt : TRUE)
           /\ IF out.type = "none"
              THEN Sleep(w, f, g, ClientPollInterval)
              ELSE /\ wait' = [wait EXCEPT ![w] = Ended(f, out)]
                   /\ gateway' = g
    /\ UNCHANGED <<now, config, client, legs, ledger, wall_offset, calls>>

\* A caller awaits is_transaction_confirmed(tx_id): one receipt fetch is sent.
IsTransactionConfirmed(w, tx_id) ==
    /\ client = "BlockchainClient"
    /\ Callable(w)
    /\ LET f == [NewFrame("is_confirmed", tx_id) EXCEPT !.pc = "fetching", !.polls = 1]
       IN  /\ wait' = [wait EXCEPT ![w] = f]
           /\ gateway' = gateway \cup {PollRequest(w, f)}
    /\ UNCHANGED <<now, config, transaction_cache, client, legs, ledger, wall_offset, calls>>

\* The answer to the fetch of is_transaction_confirmed arrives: a boolean is
\* returned, the cache is not touched.
ConfirmedAnswer(w, resp) ==
    /\ wait[w].pc = "fetching" /\ wait[w].kind = "is_confirmed"
    /\ wait' = [wait EXCEPT ![w] =
                   Ended(Polled(wait[w], resp), Return(is_transaction_confirmed(resp)))]
    /\ gateway' = gateway \ {PollRequest(w, wait[w])}
    /\ UNCHANGED <<now, config, transaction_cache, client, legs, ledger, wall_offset, calls>>

\* A caller awaits get_transaction_receipt(tx_id) itself: one fetch is sent.
GetTransactionReceipt(w, tx_id) ==
    /\ client = "BlockchainClient"
    /\ Callable(w)
    /\ wait' = [wait EXCEPT ![w] =
                   [NewFrame("receipt", tx_id) EXCEPT !.pc = "fetching", !.polls = 1]]
    /\ gateway' = gateway \cup
                      {[by |-> w, method |-> "eth_getTransactionReceipt", tx_id |-> tx_id]}
    /\ UNCHANGED <<now, config, transaction_cache, client, legs, ledger, wall_offset, calls>>

\* The answer to that fetch arrives: the receipt or None is returned.
ReceiptAnswer(w, resp) ==
    /\ wait[w].pc = "fetching" /\ wait[w].kind = "receipt"
    /\ wait' = [wait EXCEPT ![w] =
                   Ended([wait[w] EXCEPT !.answers = 1], Return(get_transaction_receipt(resp)))]
    /\ gateway' = {r \in gateway : r.by # w}
    /\ UNCHANGED <<now, config, transaction_cache, client, legs, ledger, wall_offset, calls>>

\* A caller awaits get_block_number(): one eth_blockNumber request is sent.
GetBlockNumber(w) ==
    /\ client = "BlockchainClient"
    /\ Callable(w)
    /\ wait' = [wait EXCEPT ![w] =
                   [NewFrame("block_number", "None") EXCEPT !.pc = "fetching", !.polls = 1]]
    /\ gateway' = gateway \cup {[by |-> w, method |-> "eth_blockNumber", tx_id |-> "None"]}
    /\ UNCHANGED <<now, config, transaction_cache, client, legs, ledger, wall_offset, calls>>

\* The answer to eth_blockNumber arrives: the number is returned, or the
\* call raises.
BlockNumberAnswer(w, resp) ==
    /\ wait[w].pc = "fetching" /\ wait[w].kind = "block_number"
    /\ wait' = [wait EXCEPT ![w] =
                   Ended([wait[w] EXCEPT !.answers = 1], get_block_number(resp))]
    /\ gateway' = {r \in gateway : r.by # w}
    /\ UNCHANGED <<now, config, transaction_cache, client, legs, ledger, wall_offset, calls>>

\* The sleep of a wait ends: back to the top of its loop.
Wake(w) ==
    /\ wait[w].pc = "sleeping"
    /\ now >= wait[w].wake
    /\ LET f == wait[w]
       IN  LoopHead(w, f, gateway,
                    IF f.kind = "client" THEN ClientLoopOpen(now, f.deadline)
                    ELSE ChainLoopOpen(time_time, f.start_time, f.max_wait_ms))
    /\ UNCHANGED <<now, config, transaction_cache, client, legs, ledger, wall_offset, calls>>

\* A facade operation of UserManager, or a caller of the client that submits
\* and waits by itself, sends its dchat_* request.
Submit(w, method) ==
    /\ client \in {"BlockchainClient", "UserManager"}
    /\ Callable(w)
    /\ wait' = [wait EXCEPT ![w] =
                   [NewFrame("client", "None") EXCEPT
                       !.pc = "submitting",
                       !.submitted = IF client = "UserManager" THEN 1 ELSE 0]]
    /\ gateway' = gateway \cup {[by |-> w, method |-> method, tx_id |-> "None"]}
    /\ UNCHANGED <<now, config, transaction_cache, client, legs, ledger, wall_offset, calls>>

\* The answer to a submission arrives: _submit_transaction raises or returns
\* the tx_id, and the facade then awaits wait_for_confirmation(tx_id).
Submitted(w, resp) ==
    /\ wait[w].pc = "submitting"
    /\ LET g == {r \in gateway : r.by # w}
           out == submit_transaction(resp)
       IN  IF out.type = "return"
           THEN ClientCall(w, CHOOSE tx_id \in out.value : TRUE, g)
           ELSE /\ wait' = [wait EXCEPT ![w] = Ended(wait[w], out)]
                /\ gateway' = g
    /\ UNCHANGED <<now, config, transaction_cache, client, legs, ledger, wall_offset, calls>>

\* A caller awaits wait_for_confirmation(tx_id, confirmations, max_wait_ms) on
\* a chain client: start_time is read, the loop condition tested.
ChainWait(w, kind, tx_id, confirmations, max_wait_ms) ==
    /\ client = (IF kind = "chat" THEN "ChatChainClient" ELSE "CurrencyChainClient")
    /\ Callable(w)
    /\ LET f == [NewFrame(kind, tx_id) EXCEPT !.start_time = time_time,
                                               !.called_at = now,
                                               !.max_wait_ms = max_wait_ms,
                                               !.confirmations = confirmations]
       IN  LoopHead(w, f, gateway, ChainLoopOpen(time_time, time_time, max_wait_ms))
    /\ UNCHANGED <<now, config, transaction_cache, client, legs, ledger, wall_offset, calls>>

\* The answer to a chain transaction fetch arrives.
ChainTx(w, resp) ==
    /\ wait[w].pc = "fetching" /\ wait[w].kind \in {"chat", "currency"}
    /\ LET f == Polled(wait[w], resp)
           g == gateway \ {PollRequest(w, wait[w])}
           ok == IF f.kind = "chat"
                 THEN ChatConfirmed(chat_get_transaction(resp), f.confirmations)
                 ELSE CurrencyConfirmed(currency_get_transaction(resp), f.confirmations)
       IN  IF ok # {}
           THEN /\ wait' = [wait EXCEPT ![w] = Ended(f, Return(CHOOSE t \in ok : TRUE))]
                /\ gateway' = g
           ELSE Sleep(w, f, g, ChainPollInterval)
    /\ UNCHANGED <<now, config, transaction_cache, client, legs, ledger, wall_offset, calls>>

\* A caller awaits wait_for_atomic_completion(bridge_tx_id, max_wait_ms).
WaitForAtomicCompletion(w, bridge_tx_id, max_wait_ms) ==
    /\ client = "CrossChainBridge"
    /\ Callable(w)
    /\ LET f == [NewFrame("bridge", bridge_tx_id) EXCEPT !.start_time = time_time,
                                                         !.called_at = now,
                                                         !.max_wait_ms = max_wait_ms]
       IN  LoopHead(w, f, gateway, ChainLoopOpen(time_time, time_time, max_wait_ms))
    /\ UNCHANGED <<now, config, transaction_cache, client, legs, ledger, wall_offset, calls>>

\* The answer to a bridge status query arrives.
BridgeStatus(w, resp) ==
    /\ wait[w].pc = "fetching" /\ wait[w].kind = "bridge"
    /\ LET tx == get_status(resp)
           f == Polled(wait[w], resp)
           g == gateway \ {PollRequest(w, wait[w])}
           out == BridgeOutcome(tx)
       IN  IF out.type = "none"
           THEN Sleep(w, f, g, ChainPollInterval)
           ELSE /\ wait' = [wait EXCEPT ![w] = Ended(f, out)]
                /\ gateway' = g
    /\ UNCHANGED <<now, config, transaction_cache, client, legs, ledger, wall_offset, calls>>

\* A second passes.  Time is followed while a call can still begin or a sleep
\* has still to end; the test ledger reads no clock.
Tick ==
    /\ client # "MockBlockchainPython"
    /\ \/ now < MaxTime
       \/ \E w \in Waiters : wait[w].pc = "sleeping" /\ wait[w].wake > now
    /\ now' = now + 1
    /\ UNCHANGED <<config, transaction_cache, wait, gateway, client, legs, ledger, wall_offset, calls>>

\* A ledger on which a new transaction waits for its confirmations.
submit_transaction_ledger_Unconfirmed(l, tx_type, sender) ==
    [l EXCEPT !.transactions =
        Append(@, [tx_type |-> tx_type, sender |-> sender, status |-> "Pending",
                   confirmations |-> 0,
                   block_height |-> l.current_block])]

\* MockBlockchainPython.submit_transaction: the new transaction is Confirmed,
\* with the threshold as its confirmations and the current block as its height.
submit_transaction_ledger(l, tx_type, sender) ==
    [l EXCEPT !.transactions =
        Append(@, [tx_type |-> tx_type, sender |-> sender, status |-> "Confirmed",
                   confirmations |-> l.confirmation_threshold,
                   block_height |-> l.current_block])]

\* An advance that counts the blocks on every transaction, whatever its status.
Advanced_AnyStatus(tx, count) == [tx EXCEPT !.confirmations = tx.confirmations + count]

\* MockBlockchainPython.advance_blocks, on one transaction.
Advanced(tx, count) ==
    IF tx.status = "Confirmed"
    THEN [tx EXCEPT !.confirmations = tx.confirmations + count]
    ELSE tx

\* A ledger whose block number only moves forward.
advance_blocks_Forward(l, count) ==
    IF count < 0 THEN l
    ELSE [l EXCEPT !.current_block = l.current_block + count,
                   !.transactions = [i \in DOMAIN l.transactions |->
                                         Advanced(l.transactions[i], count)]]

\* MockBlockchainPython.advance_blocks
advance_blocks(l, count) ==
    [l EXCEPT !.current_block = l.current_block + count,
              !.transactions = [i \in DOMAIN l.transactions |->
                                    Advanced(l.transactions[i], count)]]

\* MockBlockchainPython.reset
reset(l) == [l EXCEPT !.transactions = <<>>, !.current_block = 1]

\* MockBlockchainPython.get_transaction: the transaction stored under the id,
\* or None.  The id (a fresh uuid4 in the code) is the place of the
\* transaction in the order of submission.
get_transaction(l, tx_id) ==
    IF tx_id \in DOMAIN l.transactions THEN {l.transactions[tx_id]} ELSE None

\* MockBlockchainPython.get_transactions_by_type
get_transactions_by_type(l, tx_type) ==
    SelectSeq(l.transactions, LAMBDA tx : tx.tx_type = tx_type)

\* A filter by sender that lets every transaction through.
get_transactions_by_sender_All(l, sender) == l.transactions

\* MockBlockchainPython.get_transactions_by_sender
get_transactions_by_sender(l, sender) ==
    SelectSeq(l.transactions, LAMBDA tx : tx.sender = sender)

\* A test calls submit_transaction.
SubmitTransaction(tx_type, sender) ==
    /\ client = "MockBlockchainPython"
    /\ Len(ledger.transactions) < MaxTxs
    /\ ledger' = submit_transaction_ledger(ledger, tx_type, sender)
    /\ calls' = [calls EXCEPT !.submitted =
                    Append(@, [tx_type |-> tx_type, sender |-> sender,
                               current_block |-> ledger.current_block])]
    /\ UNCHANGED <<now, config, transaction_cache, wait, gateway, client, legs, wall_offset>>

\* A test calls advance_blocks(count).
AdvanceBlocks(count) ==
    /\ client = "MockBlockchainPython"
    /\ ledger.current_block + count \in 0..MaxBlock
    /\ ledger' = advance_blocks(ledger, count)
    /\ calls' = [calls EXCEPT !.advanced = @ + count]
    /\ UNCHANGED <<now, config, transaction_cache, wait, gateway, client, legs, wall_offset>>

\* A test calls reset.
Reset ==
    /\ client = "MockBlockchainPython"
    /\ ledger' = reset(ledger)
    /\ calls' = NoCalls
    /\ UNCHANGED <<now, config, transaction_cache, wait, gateway, client, legs, wall_offset>>

\* The steps on the test ledger.
NextLedger ==
    \/ \E tx_type \in TxTypes, sender \in Senders : SubmitTransaction(tx_type, sender)
    \/ \E count \in Counts : AdvanceBlocks(count)
    \/ Reset

\* The wall clock of the host is set back or forward by one second.
AdjustClock(d) ==
    /\ client \in {"ChatChainClient", "CurrencyChainClient", "CrossChainBridge"}
    /\ wall_offset + d \in -MaxSkew..MaxSkew
    /\ wall_offset' = wall_offset + d
    /\ UNCHANGED <<now, config, transaction_cache, wait, gateway, client, legs, ledger, calls>>

\* The steps on a BlockchainClient, a chain client, the bridge.
NextClient ==
    \/ \E w \in Waiters, tx_id \in TxIds : WaitForConfirmation(w, tx_id)
    \/ \E w \in Waiters, resp \in ClientResponses : ClientReceipt(w, resp)
    \/ \E w \in Waiters, tx_id \in TxIds : IsTransactionConfirmed(w, tx_id)
    \/ \E w \in Waiters, resp \in ClientResponses : ConfirmedAnswer(w, resp)
    \/ \E w \in Waiters, m \in SubmitMethods : Submit(w, m)
    \/ \E w \in Waiters, resp \in SubmitResponses : Submitted(w, resp)
    \/ \E w \in Waiters : Wake(w)
    \/ Tick

NextChain ==
    \/ \E w \in Waiters, kind \in {"chat", "currency"}, tx_id \in TxIds,
          c \in Thresholds, mw \in MaxWaits : ChainWait(w, kind, tx_id, c, mw)
    \/ \E w \in Waiters, resp \in ChainResponses : ChainTx(w, resp)
    \/ \E w \in Waiters : Wake(w)
    \/ Tick

NextBridge ==
    \/ \E w \in Waiters, tx_id \in BridgeTxIds, mw \in MaxWaits :
          WaitForAtomicCompletion(w, tx_id, mw)
    \/ \E w \in Waiters, resp \in BridgeResponses : BridgeStatus(w, resp)
    \/ \E w \in Waiters : Wake(w)
    \/ Tick

Next ==
    \/ \E w \in Waiters, tx_id \in TxIds : WaitForConfirmation(w, tx_id)
    \/ \E w \in Waiters, resp \in ClientResponses : ClientReceipt(w, resp)
    \/ \E w \in Waiters, tx_id \in TxIds : IsTransactionConfirmed(w, tx_id)
    \/ \E w \in Waiters, resp \in ClientResponses : ConfirmedAnswer(w, resp)
    \/ \E w \in Waiters, m \in SubmitMethods : Submit(w, m)
    \/ \E w \in Waiters, resp \in SubmitResponses : Submitted(w, resp)
    \/ \E w \in Waiters, kind \in {"chat", "currency"}, tx_id \in TxIds,
          c \in Thresholds, mw \in MaxWaits : ChainWait(w, kind, tx_id, c, mw)
    \/ \E w \in Waiters, resp \in ChainResponses : ChainTx(w, resp)
    \/ \E w \in Waiters, tx_id \in BridgeTxIds, mw \in MaxWaits :
          WaitForAtomicCompletion(w, tx_id, mw)
    \/ \E w \in Waiters, resp \in BridgeResponses : BridgeStatus(w, resp)
    \/ \E w \in Waiters : Wake(w)
    \/ \E tx_type \in TxTypes, sender \in Senders : SubmitTransaction(tx_type, sender)
    \/ \E count \in Counts : AdvanceBlocks(count)
    \/ Reset
    \/ Tick

\* Every client.
Spec == Init /\ [][Next]_vars

\* One client object each.
InitClient == Init /\ client = "BlockchainClient"
SpecClient == InitClient /\ [][NextClient]_vars

\* One caller of the UserManager facades.
InitFacade == Init /\ client = "UserManager"
NextFacade ==
    \/ \E w \in Waiters, m \in SubmitMethods : Submit(w, m)
    \/ \E w \in Waiters, resp \in SubmitResponses : Submitted(w, resp)
    \/ \E w \in Waiters, resp \in ClientResponses : ClientReceipt(w, resp)
    \/ \E w \in Waiters : Wake(w)
    \/ Tick
SpecFacade == InitFacade /\ [][NextFacade]_vars

InitChain == Init /\ client \in {"ChatChainClient", "CurrencyChainClient"}
SpecChain == InitChain /\ [][NextChain]_vars

InitBridge == Init /\ client = "CrossChainBridge"
SpecBridge == InitBridge /\ [][NextBridge]_vars

\* One caller of a chain client or of the bridge, on a host whose wall clock
\* is adjusted.
InitClock ==
    Init /\ client \in {"ChatChainClient", "CurrencyChainClient", "CrossChainBridge"}
NextClock ==
    \/ \E kind \in {"chat", "currency"}, c \in Thresholds, mw \in MaxWaits :
          ChainWait("w1", kind, "t1", c, mw)
    \/ \E resp \in ChainResponses : ChainTx("w1", resp)
    \/ \E mw \in MaxWaits : WaitForAtomicCompletion("w1", "x1", mw)
    \/ \E resp \in BridgeResponses : BridgeStatus("w1", resp)
    \/ Wake("w1")
    \/ Tick
    \/ \E d \in {-1, 1} : AdjustClock(d)
SpecClock == InitClock /\ [][NextClock]_vars

\* One caller waits on a BlockchainClient configured with the long timeout.
InitPoll ==
    /\ now = 0
    /\ config = [confirmation_timeout |-> LongTimeout]
    /\ transaction_cache = [id \in TxIds |-> None]
    /\ wait = [w \in Waiters |-> IdleFrame]
    /\ gateway = {}
    /\ client = "BlockchainClient"
    /\ legs = NoLegs
    /\ wall_offset = 0
    /\ ledger = NewLedger(DefaultThreshold)
    /\ calls = NoCalls
NextPoll ==
    \/ \E tx_id \in TxIds : WaitForConfirmation("w1", tx_id)
    \/ \E resp \in ClientResponses : ClientReceipt("w1", resp)
    \/ Wake("w1")
    \/ Tick
SpecPoll == InitPoll /\ [][NextPoll]_vars

\* One caller of any of the waits; time advances while a sleep has to end,
\* every sleep ends, every gateway call returns.  The wall clock may be set.
InitLive ==
    Init /\ client \in {"BlockchainClient", "ChatChainClient", "CurrencyChainClient",
                        "CrossChainBridge"}
NextLive ==
    \/ \E tx_id \in TxIds : WaitForConfirmation("w1", tx_id)
    \/ \E resp \in ClientResponses : ClientReceipt("w1", resp)
    \/ \E kind \in {"chat", "currency"}, c \in Thresholds, mw \in MaxWaits :
          ChainWait("w1", kind, "t1", c, mw)
    \/ \E resp \in ChainResponses : ChainTx("w1", resp)
    \/ \E mw \in MaxWaits : WaitForAtomicCompletion("w1", "x1", mw)
    \/ \E resp \in BridgeResponses : BridgeStatus("w1", resp)
    \/ Wake("w1")
    \/ Tick
    \/ \E d \in {-1, 1} : AdjustClock(d)
Fairness ==
    /\ WF_vars(Tick)
    /\ WF_vars(Wake("w1"))
    /\ WF_vars(\E resp \in ClientResponses : ClientReceipt("w1", resp))
    /\ WF_vars(\E resp \in ChainResponses : ChainTx("w1", resp))
    /\ WF_vars(\E resp \in BridgeResponses : BridgeStatus("w1", resp))
SpecLive == InitLive /\ [][NextLive]_vars /\ Fairness

\* The owner of a BlockchainClient sets config.confirmation_timeout (the
\* config is a plain dataclass, read anew by every call).
Reconfigure(confirmation_timeout) ==
    /\ client = "BlockchainClient"
    /\ config' = [config EXCEPT !.confirmation_timeout = confirmation_timeout]
    /\ UNCHANGED <<now, transaction_cache, wait, gateway, client, legs, ledger, wall_offset,
                   calls>>

\* One caller of any of the waits, with timeouts of zero or less among the
\* values it passes or configures.
NextExpired ==
    \/ \E tx_id \in TxIds : WaitForConfirmation("w1", tx_id)
    \/ \E resp \in ClientResponses : ClientReceipt("w1", resp)
    \/ \E t \in Timeouts \cup ExpiredTimeouts : Reconfigure(t)
    \/ \E kind \in {"chat", "currency"}, c \in Thresholds, mw \in MaxWaits \cup ExpiredWaits :
          ChainWait("w1", kind, "t1", c, mw)
    \/ \E resp \in ChainResponses : ChainTx("w1", resp)
    \/ \E mw \in MaxWaits \cup ExpiredWaits : WaitForAtomicCompletion("w1", "x1", mw)
    \/ \E resp \in BridgeResponses : BridgeStatus("w1", resp)
    \/ Wake("w1")
    \/ Tick
SpecExpired == InitLive /\ [][NextExpired]_vars

\* One caller that uses every operation of a BlockchainClient.
NextCache ==
    \/ \E tx_id \in TxIds : WaitForConfirmation("w1", tx_id)
    \/ \E resp \in ClientResponses : ClientReceipt("w1", resp)
    \/ \E tx_id \in TxIds : IsTransactionConfirmed("w1", tx_id)
    \/ \E resp \in ClientResponses : ConfirmedAnswer("w1", resp)
    \/ \E tx_id \in TxIds : GetTransactionReceipt("w1", tx_id)
    \/ \E resp \in ClientResponses : ReceiptAnswer("w1", resp)
    \/ GetBlockNumber("w1")
    \/ \E resp \in BlockNumberResponses : BlockNumberAnswer("w1", resp)
    \/ \E m \in SubmitMethods : Submit("w1", m)
    \/ \E resp \in SubmitResponses : Submitted("w1", resp)
    \/ Wake("w1")
    \/ Tick
SpecCache == InitClient /\ [][NextCache]_vars

InitLedger == Init /\ client = "MockBlockchainPython"
SpecLedger == InitLedger /\ [][NextLedger]_vars


\* ------------------------------------------------------------------ claims
ClientWait(w) == wait[w].kind = "client" /\ wait[w].tx_id # "None"
BridgeWait(w) == wait[w].kind = "bridge" /\ wait[w].pc # "idle"
Done(w) == wait[w].pc = "done"

\* C1: once a wait_for_confirmation call has ended on a terminal receipt it
\* fetched for a transaction id, every later wait_for_confirmation call for
\* that id ends at once with that same outcome (the same receipt returned, the
\* same transaction-failed error raised) and sends no receipt fetch.
C1_CacheIdempotence ==
    [][\A w \in Waiters, tx_id \in TxIds :
          (Observed(tx_id) # {} /\ WaitForConfirmation(w, tx_id))
              => /\ wait'[w].pc = "done"
                 /\ wait'[w].polls = 0
                 /\ wait'[w].outcome \in Observed(tx_id)]_vars

\* C2: wait_for_atomic_completion returns (reports AtomicSuccess) only when
\* both legs are confirmed successes: both leg transactions are present in
\* what it returns and both legs did succeed.
C2_SuccessNeedsBothLegs ==
    \A w \in Waiters :
        (BridgeWait(w) /\ Done(w) /\ wait[w].outcome.type = "return")
            => /\ legs.chat = "success" /\ legs.currency = "success"
               /\ \A t \in wait[w].outcome.value :
                     t.chat_chain_tx # "None" /\ t.currency_chain_tx # "None"

\* One leg succeeded and the other failed.
LegsSplit == legs.chat # legs.currency

\* A status the bridge may truthfully report given how the legs ended.
Truthful(status) ==
    CASE status = "pending" -> TRUE
      [] status = "chat_chain_confirmed" -> legs.chat = "success"
      [] status = "currency_chain_confirmed" -> legs.currency = "success"
      [] status = "atomic_success" -> legs.chat = "success" /\ legs.currency = "success"
      [] status = "rolled_back" -> LegsSplit
      [] status = "failed" -> legs.chat = "failed" \/ legs.currency = "failed"
      [] OTHER -> FALSE

\* C3: when one leg succeeds and the other fails, (with a bridge that reports
\* truthfully) the wait ends with AtomicFailure on status rolled_back or
\* failed: it never ends while the status is still pending,
\* chat_chain_confirmed or currency_chain_confirmed.
C3_SplitLegsEndInAtomicFailure ==
    \A w \in Waiters :
        (BridgeWait(w) /\ Done(w) /\ LegsSplit /\ Truthful(wait[w].status))
            => /\ wait[w].outcome.type = "RuntimeError"
               /\ wait[w].status \in {"rolled_back", "failed"}


\* A wait_for_confirmation call of a client of any of the three kinds.
ConfirmationWait(w) ==
    wait[w].pc # "idle" /\ wait[w].kind \in {"client", "chat", "currency"}
        /\ wait[w].tx_id # "None"

\* C4: a wait_for_confirmation call that ended without a terminal receipt
\* among what it was given (only pending receipts, not-found answers and
\* network errors, on every poll if need be) ended with Timeout, and with no
\* other outcome.
C4_TimeoutWithoutTerminal ==
    \A w \in Waiters :
        (ConfirmationWait(w) /\ Done(w) /\ ~wait[w].saw_terminal)
            => wait[w].outcome = Raise("TimeoutError", "")

\* C4 happens: a wait polled twice, met a network error, saw nothing terminal
\* and timed out.
C4_Witness ==
    \E w \in Waiters :
        /\ ConfirmationWait(w) /\ Done(w) /\ ~wait[w].saw_terminal
        /\ wait[w].saw_error /\ wait[w].polls >= 2
        /\ wait[w].outcome.type = "TimeoutError"

\* The data model's invariant on a receipt: success and error exclude each other.
WellFormed(r) == ~(r.success /\ Truthy(r.error))

\* C5: BlockchainClient.wait_for_confirmation returns a receipt only if its
\* success is true, and never a receipt whose error is set: on such a receipt
\* it raises the transaction-failed error (stated for the receipts that obey
\* the data model's invariant).
C5_ReturnsOnlySuccess ==
    \A w \in Waiters :
        (ClientWait(w) /\ Done(w) /\ wait[w].outcome.type = "return")
            => \A r \in wait[w].outcome.value :
                  WellFormed(r) => r.success /\ ~Truthy(r.error)

\* The cross-chain statuses that are not terminal.
Intermediate == {"pending", "chat_chain_confirmed", "currency_chain_confirmed"}

\* C6: wait_for_atomic_completion returns only a transaction whose status is
\* atomic_success; after a poll that saw pending, chat_chain_confirmed or
\* currency_chain_confirmed the wait goes on or times out, it never returns.
C6_ReturnsOnlyAtomicSuccess ==
    \A w \in Waiters :
        BridgeWait(w) =>
            /\ wait[w].outcome.type = "return"
                  => \A t \in wait[w].outcome.value : t.status = "atomic_success"
            /\ wait[w].status \in Intermediate
                  => /\ wait[w].outcome.type \in {"none", "TimeoutError"}
                     /\ Done(w) <=> wait[w].outcome.type = "TimeoutError"

\* C6 happens: a wait saw chat_chain_confirmed and went on to a further poll.
C6_Witness ==
    \E w \in Waiters :
        /\ BridgeWait(w) /\ wait[w].pc = "fetching" /\ wait[w].polls = 2
        /\ wait[w].status = "chat_chain_confirmed"

\* C7: a poll of wait_for_atomic_completion that sees failed or rolled_back
\* ends the wait there, with the RuntimeError (AtomicFailure) that carries the
\* status seen, which is not the TimeoutError of the deadline.
C7_AtomicFailureCarriesStatus ==
    \A w \in Waiters :
        BridgeWait(w) =>
            /\ wait[w].status \in {"failed", "rolled_back"}
                  => Done(w) /\ wait[w].outcome = Raise("RuntimeError", wait[w].status)
            /\ wait[w].outcome.type = "RuntimeError"
                  => wait[w].outcome.msg = wait[w].status
                        /\ wait[w].status \in {"failed", "rolled_back"}

\* C7 happens: a wait ended on rolled_back at its second poll.
C7_Witness ==
    \E w \in Waiters :
        /\ BridgeWait(w) /\ Done(w) /\ wait[w].polls = 2
        /\ wait[w].outcome = Raise("RuntimeError", "rolled_back")

\* C8: once the cache holds a terminal receipt for an id, no step replaces it.
C8_NoRegress ==
    [][\A tx_id \in TxIds :
          (\E r \in transaction_cache[tx_id] : TerminalReceipt(r))
              => transaction_cache'[tx_id] = transaction_cache[tx_id]]_vars

\* C9: the only request a wait_for_confirmation call has at the gateway is one
\* receipt fetch for the id it was given; a submission request is in flight
\* only for a caller that is submitting, before any wait.
C9_WaitNeverSubmits ==
    /\ \A r \in gateway :
          LET f == wait[r.by]
          IN  IF r.method \in SubmitMethods
              THEN f.pc = "submitting"
              ELSE /\ f.pc = "fetching"
                   /\ r.method = "eth_getTransactionReceipt"
                   /\ r.tx_id = f.tx_id
    /\ \A w \in Waiters : Cardinality({r \in gateway : r.by = w}) <= 1

\* C9 happens: a wait re-polls (its second fetch is in flight) and one timed
\* out after polling, with nothing left in flight.
C9_Witness ==
    /\ client = "BlockchainClient"
    /\ \E w \in Waiters :
          /\ wait[w].pc = "fetching" /\ wait[w].polls = 2
          /\ [by |-> w, method |-> "eth_getTransactionReceipt",
              tx_id |-> wait[w].tx_id] \in gateway
    /\ \E w \in Waiters :
          /\ ClientWait(w) /\ Done(w) /\ wait[w].polls >= 1
          /\ wait[w].outcome.type = "TimeoutError"

\* The answers that are transient network errors: the request failed, or the
\* gateway answered with a 5xx status.
TransientErrors ==
    {resp \in ClientResponses \cup ChainResponses \cup BridgeResponses :
        Tag(resp) \in {"neterr", "http5xx"}}

\* The answers that carry the result a wait is for: a terminal receipt, a
\* terminal cross-chain status, a chain transaction with the confirmations
\* asked for.
Results(f) ==
    CASE f.kind = "client" -> {resp \in ClientResponses : TerminalAnswer(f, resp)}
      [] f.kind = "bridge" -> {resp \in BridgeResponses : TerminalAnswer(f, resp)}
      [] OTHER -> {resp \in ChainResponses :
                      /\ Tag(resp) = "body"
                      /\ \A t \in resp.result : t.confirmations >= f.confirmations}

\* The answer resp to the poll of w arrives.
Answer(w, resp) ==
    ClientReceipt(w, resp) \/ ChainTx(w, resp) \/ BridgeStatus(w, resp)

\* The sleep between two polls of a wait.
Interval(f) == IF f.kind = "client" THEN ClientPollInterval ELSE ChainPollInterval

\* The loop condition of a wait at time t.
LoopOpen(f, t) ==
    IF f.kind = "client" THEN ClientLoopOpen(t, f.deadline)
    ELSE ChainLoopOpen(t, f.start_time, f.max_wait_ms)

\* C10: in each of the four wait loops a poll that fails with a transient
\* network error ends nothing: the wait sleeps its interval with no outcome
\* and the cache untouched, on waking before the deadline it polls again, and
\* a result that a later poll brings is delivered to the caller.
C10_NetworkErrorSwallowed ==
    [][\A w \in Waiters :
          /\ wait[w].pc = "fetching" =>
                /\ \A resp \in TransientErrors :
                      Answer(w, resp) =>
                          /\ wait'[w].pc = "sleeping"
                          /\ wait'[w].outcome = NoOutcome
                          /\ wait'[w].wake = now + Interval(wait[w])
                          /\ transaction_cache' = transaction_cache
                /\ wait[w].saw_error =>
                      \A resp \in Results(wait[w]) :
                          Answer(w, resp) =>
                              /\ wait'[w].pc = "done"
                              /\ wait'[w].outcome.type \in {"return", "Exception", "RuntimeError"}
                              /\ wait'[w].outcome.type = "return"
                                    => wait'[w].outcome.value = resp.result
          /\ (wait[w].pc = "sleeping" /\ wait[w].saw_error
                 /\ LoopOpen(wait[w], now) /\ Wake(w))
                => /\ wait'[w].pc = "fetching"
                   /\ PollRequest(w, wait[w]) \in gateway']_vars

\* C10 happens: a chain wait met a network error on one poll, polled again and
\* returned the confirmed transaction.
C10_Witness ==
    \E w \in Waiters :
        /\ wait[w].kind = "chat" /\ Done(w) /\ wait[w].saw_error
        /\ wait[w].polls >= 2 /\ wait[w].outcome.type = "return"

\* The answers that say the transaction is not known: a 404, or for the
\* JSON-RPC endpoint a 200 answer without a result.
NotFound ==
    {resp \in ClientResponses \cup ChainResponses \cup BridgeResponses :
        Tag(resp) \in {"http404", "null"}}

\* A wait that was answered, and by not-found answers only.
OnlyNotFound(f) ==
    f.pc # "idle" /\ f.kind # "is_confirmed" /\ f.tx_id # "None"
        /\ f.polls > 0 /\ f.pc # "fetching"
        /\ ~f.saw_error /\ f.status = "None"

\* C11: a not-found answer to a receipt, transaction or status query is taken
\* as still pending: the wait sleeps its interval with no outcome, and a wait
\* whose every answer was not-found ends with TimeoutError and nothing else.
C11_NotFoundIsPending ==
    [][\A w \in Waiters :
          /\ wait[w].pc = "fetching" =>
                \A resp \in NotFound :
                    Answer(w, resp) =>
                        /\ wait'[w].pc = "sleeping"
                        /\ wait'[w].outcome = NoOutcome
                        /\ wait'[w].wake = now + Interval(wait[w])
                        /\ transaction_cache' = transaction_cache
          /\ OnlyNotFound(wait'[w]) =>
                /\ wait'[w].pc \in {"sleeping", "done"}
                /\ wait'[w].pc = "done"
                      => wait'[w].outcome = Raise("TimeoutError", "")]_vars

\* C11 happens: a bridge wait was answered 404 on each of its two polls and
\* timed out.
C11_Witness ==
    \E w \in Waiters :
        /\ BridgeWait(w) /\ Done(w) /\ OnlyNotFound(wait[w])
        /\ wait[w].polls >= 2 /\ wait[w].outcome.type = "TimeoutError"

\* The time at which the loop condition of a wait turns false.
Deadline(f) ==
    IF f.kind = "client" THEN f.deadline
    ELSE f.start_time + (f.max_wait_ms \div 1000)

\* C12: a wait that times out does so no later than one poll interval past
\* its deadline.
C12_TimeoutWithinOneInterval ==
    [][\A w \in Waiters :
          (wait[w].pc = "sleeping" /\ Wake(w)
              /\ wait'[w].outcome.type = "TimeoutError")
                => now <= Deadline(wait[w]) + Interval(wait[w])]_vars

\* A wait_for_atomic_completion call that is polling for its cross-chain id.
Driving(w) == BridgeWait(w) /\ wait[w].pc \in {"fetching", "sleeping"}

\* C13: no two wait_for_atomic_completion calls drive the same cross-chain id
\* at once: a second call for an id that is being waited for is rejected or
\* joins the first, it does not poll on its own.
C13_SingleCoordinator ==
    \A w \in Waiters, v \in Waiters :
        (w # v /\ Driving(w) /\ Driving(v)) => wait[w].tx_id # wait[v].tx_id

\* What a wait_for_confirmation call running alone makes of the answer resp.
Alone(resp) ==
    IF Tag(resp) # "body" THEN NoOutcome
    ELSE LET r == CHOOSE b \in resp.result : TRUE
         IN  IF r.success THEN Return(r)
             ELSE IF Truthy(r.error) THEN Raise("Exception", r.error)
             ELSE NoOutcome

\* C14: concurrent wait_for_confirmation calls do not disturb each other: a
\* step of one call leaves the frame of every other call and the cache entry
\* of every other id as they were, and what the call makes of an answer is
\* what it would make of it running alone.
C14_DistinctIdsIndependent ==
    [][\A w \in Waiters :
          /\ wait[w].pc = "fetching" =>
                \A resp \in ClientResponses :
                    ClientReceipt(w, resp) =>
                        /\ \A id \in TxIds \ {wait[w].tx_id} :
                              transaction_cache'[id] = transaction_cache[id]
                        /\ \A v \in Waiters \ {w} : wait'[v] = wait[v]
                        /\ wait'[w].outcome = Alone(resp)
          /\ \A tx_id \in TxIds :
                WaitForConfirmation(w, tx_id) =>
                    /\ transaction_cache' = transaction_cache
                    /\ \A v \in Waiters \ {w} : wait'[v] = wait[v]]_vars

\* C14 happens: while one call is at its second poll for t1, a concurrent call
\* for t2 has returned, and each id has its own receipt in the cache.
C14_Witness ==
    \E w \in Waiters, v \in Waiters :
        /\ ClientWait(w) /\ wait[w].tx_id = "t1" /\ wait[w].pc = "fetching"
        /\ wait[w].polls = 2 /\ wait[w].status = "pending"
        /\ ClientWait(v) /\ wait[v].tx_id = "t2" /\ Done(v) /\ wait[v].polls = 2
        /\ wait[v].outcome.type = "return"
        /\ transaction_cache["t2"] = wait[v].outcome.value
        /\ transaction_cache["t1"] = {[success |-> FALSE, error |-> "None"]}

\* A BlockchainClient operation that reported on a transaction after asking
\* the ledger.
Reported(w) ==
    /\ wait[w].kind \in {"client", "is_confirmed"} /\ Done(w)
    /\ wait[w].tx_id # "None" /\ wait[w].polls > 0

\* What the ledger had to say when the operation ended: success, an explicit
\* chain error, nothing before the deadline, or nothing yet.
Situation(f) ==
    IF f.status \in {"success", "failed"} THEN f.status
    ELSE IF f.outcome.type = "TimeoutError" THEN "timeout"
    ELSE "not_yet_known"

\* What the caller is handed: the type of the exception, the boolean, or the
\* receipt with its success flag.
Handed(f) ==
    IF f.outcome.type # "return" THEN f.outcome.type
    ELSE IF f.kind = "is_confirmed"
         THEN (IF TRUE \in f.outcome.value THEN "True" ELSE "False")
    ELSE IF \E r \in f.outcome.value : r.success THEN "receipt, success"
    ELSE "receipt, no success"

\* C15: two reports of the BlockchainClient (wait_for_confirmation,
\* is_transaction_confirmed) made in different situations (success, chain
\* error, timeout, not yet known) hand the caller different results.
C15_OutcomesDistinguishable ==
    \A w \in Waiters, v \in Waiters :
        (Reported(w) /\ Reported(v) /\ Situation(wait[w]) # Situation(wait[v]))
            => Handed(wait[w]) # Handed(wait[v])

\* A wait_for_confirmation call on the chat chain or the currency chain.
ChainWaiting(w) == wait[w].kind \in {"chat", "currency"} /\ wait[w].pc # "idle"

\* C16: a chain wait that fetched a transaction with status failed has ended,
\* with a failure that is not the TimeoutError, and has not returned the
\* transaction.
C16_ChainFailureSurfaced ==
    \A w \in Waiters :
        (ChainWaiting(w) /\ wait[w].pc # "fetching" /\ wait[w].status = "failed")
            => /\ Done(w)
               /\ wait[w].outcome.type \notin {"none", "return", "TimeoutError"}

\* The answers to a submission that are well-formed RPC errors.
RpcErrors == {resp \in SubmitResponses : resp.kind = "http" /\ resp.body = "error"}

\* C17: an RPC error answer to a submission ends the operation at once with
\* that error: no transaction id comes back, nothing is sent again and no
\* confirmation wait begins.
C17_RpcErrorFatal ==
    [][\A w \in Waiters :
          wait[w].pc = "submitting" =>
              \A resp \in RpcErrors :
                  Submitted(w, resp) =>
                      /\ wait'[w].pc = "done"
                      /\ wait'[w].outcome = Raise("Exception", "RPC error")
                      /\ wait'[w].tx_id = "None" /\ wait'[w].polls = 0
                      /\ \A r \in gateway' : r.by # w]_vars

\* C17 happens: a submission ended on an RPC error.
C17_Witness ==
    \E w \in Waiters :
        /\ Done(w) /\ wait[w].kind = "client" /\ wait[w].tx_id = "None"
        /\ wait[w].outcome = Raise("Exception", "RPC error")
        /\ \A r \in gateway : r.by # w

\* The answers to a submission that are transient network errors.
SubmitTransient ==
    {resp \in SubmitResponses : resp.kind = "neterr" \/ resp.status >= 500}

\* C18: a submission whose first attempt meets a transient network error is
\* sent again (max_retries allows more than one attempt) instead of ending
\* with the error.
C18_SubmitRetried ==
    [][\A w \in Waiters :
          wait[w].pc = "submitting" =>
              \A resp \in SubmitTransient :
                  (Submitted(w, resp) /\ 1 < max_retries) =>
                      /\ wait'[w].pc = "submitting"
                      /\ \E r \in gateway' : r.by = w /\ r.method \in SubmitMethods]_vars

\* The answers that carry a transaction with at least c confirmations.
Enough(c) ==
    {resp \in ChainResponses :
        Tag(resp) = "body" /\ \A t \in resp.result : t.confirmations >= c}

\* C19: a chain wait called with confirmations = c returns on a poll exactly
\* when the transaction fetched on that poll has at least c confirmations, and
\* what it returns is that transaction; a lower count sleeps and polls again.
C19_ReturnNeedsThreshold ==
    [][\A w \in Waiters :
          (wait[w].pc = "fetching" /\ ChainWaiting(w)) =>
              \A resp \in ChainResponses :
                  ChainTx(w, resp) =>
                      IF resp \in Enough(wait[w].confirmations)
                      THEN wait'[w].outcome = Return(CHOOSE t \in resp.result : TRUE)
                      ELSE wait'[w].outcome = NoOutcome /\ wait'[w].pc = "sleeping"]_vars

\* C19 happens: a wait for two confirmations returned, on its second poll, a
\* transaction with two confirmations.
C19_Witness ==
    \E w \in Waiters :
        /\ ChainWaiting(w) /\ Done(w) /\ wait[w].confirmations = 2
        /\ wait[w].polls = 2 /\ wait[w].status = "confirmed" /\ ~wait[w].saw_error
        /\ wait[w].outcome.type = "return"
        /\ \A t \in wait[w].outcome.value : t.confirmations = 2

\* The transactions a ledger can hold, of every status.
LedgerTransactions ==
    [tx_type : TxTypes, sender : Senders, status : LedgerStatus,
     confirmations : 0..2, block_height : 1..2]

\* C20: advance_blocks(N) adds exactly N to the confirmations of every
\* Confirmed transaction of the ledger and leaves every other field and every
\* transaction of another status as it was; advancing by N and then by M
\* gives the ledger that advancing by N + M gives.
C20_AdvanceAddsExactlyN ==
    [][\A n \in Counts :
          AdvanceBlocks(n) =>
              /\ DOMAIN ledger'.transactions = DOMAIN ledger.transactions
              /\ \A i \in DOMAIN ledger.transactions :
                    LET old == ledger.transactions[i]
                        new == ledger'.transactions[i]
                    IN  IF old.status = "Confirmed"
                        THEN new = [old EXCEPT !.confirmations = old.confirmations + n]
                        ELSE new = old
              /\ \A tx \in LedgerTransactions :
                    tx.status # "Confirmed" => Advanced(tx, n) = tx
              /\ \A m \in Counts :
                    advance_blocks(ledger', m) = advance_blocks(ledger, n + m)]_vars

\* C20 happens: after two transactions were submitted at different heights
\* the chain was advanced, and each has its count raised by the blocks
\* advanced since it was submitted.
C20_Witness ==
    /\ client = "MockBlockchainPython"
    /\ Len(ledger.transactions) = 2
    /\ ledger.current_block = 4
    /\ ledger.transactions[1].block_height = 1
    /\ ledger.transactions[1].confirmations = ledger.confirmation_threshold + 3
    /\ ledger.transactions[2].block_height = 3
    /\ ledger.transactions[2].confirmations = ledger.confirmation_threshold + 1

\* C21: no submit_transaction and no advance_blocks lowers the confirmations
\* of a transaction that is Confirmed.
C21_ConfirmationsNeverDecrease ==
    [][((\E tx_type \in TxTypes, sender \in Senders : SubmitTransaction(tx_type, sender))
           \/ (\E count \in Counts : AdvanceBlocks(count)))
          => \A i \in DOMAIN ledger.transactions :
                ledger.transactions[i].status = "Confirmed"
                    => ledger'.transactions[i].confirmations
                          >= ledger.transactions[i].confirmations]_vars

\* The receipts the client holds: those in the cache and those a
\* wait_for_confirmation call returned.
Held ==
    UNION {transaction_cache[id] : id \in TxIds}
        \cup UNION {wait[w].outcome.value :
                       w \in {v \in Waiters : ClientWait(v) /\ Done(v)}}

\* C22: no receipt the client holds has success true together with an error
\* that is not None.
C22_ReceiptInvariant ==
    \A r \in Held : ~(r.success /\ r.error # "None")

\* The statuses the cross-chain state machine can reach from a status, in one
\* transition or more: Pending to either leg confirmed, a confirmed leg to
\* AtomicSuccess, any non-terminal status to RolledBack or Failed.
Reachable(status) ==
    CASE status = "pending" ->
             {"chat_chain_confirmed", "currency_chain_confirmed",
              "atomic_success", "rolled_back", "failed"}
      [] status \in {"chat_chain_confirmed", "currency_chain_confirmed"} ->
             {"atomic_success", "rolled_back", "failed"}
      [] OTHER -> {}

\* C23: the status a poll of wait_for_atomic_completion observes is the
\* status its previous poll observed or one the state machine reaches from it.
C23_StatusFollowsStateMachine ==
    [][\A w \in Waiters :
          (BridgeWait(w) /\ wait[w].pc = "fetching" /\ wait[w].status # "None"
              /\ \E resp \in BridgeResponses : BridgeStatus(w, resp))
                => \/ wait'[w].status = wait[w].status
                   \/ wait'[w].status \in Reachable(wait[w].status)]_vars

\* C24: every transaction wait_for_atomic_completion returns, its status being
\* terminal, has finalized_at set.
C24_FinalizedAtSetWhenTerminal ==
    \A w \in Waiters :
        (BridgeWait(w) /\ Done(w) /\ wait[w].outcome.type = "return")
            => \A t \in wait[w].outcome.value :
                  t.status \in {"atomic_success", "rolled_back", "failed"}
                      => t.finalized_at # "None"

\* The loop condition of a wait, read on the monotonic clock.
MonotonicOpen(f) ==
    IF f.kind = "client" THEN now < f.called_at + config.confirmation_timeout
    ELSE (now - f.called_at) * 1000 < f.max_wait_ms

\* C25: each time a wait comes back to the top of its loop it goes on exactly
\* when less than the configured time has passed on the monotonic clock since
\* the call, whatever was done to the wall clock meanwhile; else it times out.
C25_MonotonicDeadline ==
    [][\A w \in Waiters :
          (wait[w].pc = "sleeping" /\ Wake(w))
              => IF MonotonicOpen(wait[w])
                 THEN wait'[w].pc = "fetching"
                 ELSE wait'[w].outcome = Raise("TimeoutError", "")]_vars

\* A call of wait_for_confirmation by w for tx_id that finds no terminal
\* receipt in the cache: the id is not cached, or its receipt is pending.
Revalidating(w, tx_id) ==
    /\ WaitForConfirmation(w, tx_id)
    /\ \A cached \in transaction_cache[tx_id] : ~TerminalReceipt(cached)

\* The step sends a receipt fetch of w.
LiveFetch(w) ==
    /\ wait'[w].pc = "fetching"
    /\ PollRequest(w, wait'[w]) \in gateway' \ gateway

\* The step ends a wait_for_confirmation of w in a returned receipt or in the
\* failure of the transaction.
Settles(w) ==
    /\ wait'[w] # wait[w]
    /\ wait'[w].kind = "client" /\ wait'[w].tx_id # "None" /\ wait'[w].pc = "done"
    /\ wait'[w].outcome.type \in {"return", "Exception"}

\* The outcome of the step is read off a receipt that w fetched in this call.
FromFetch(w) ==
    /\ wait[w].pc = "fetching" /\ wait[w].kind = "client"
    /\ \E resp \in ClientResponses :
          /\ ClientReceipt(w, resp)
          /\ get_transaction_receipt(resp) # None
          /\ wait'[w].outcome =
                 ReceiptOutcome(CHOOSE r \in get_transaction_receipt(resp) : TRUE)

\* The outcome of the step is a terminal receipt the cache held at the call.
FromTerminalCache(w) ==
    /\ wait[w].pc # "fetching"
    /\ \E cached \in transaction_cache[wait'[w].tx_id] :
          TerminalReceipt(cached) /\ wait'[w].outcome = CacheHitOutcome(cached)

\* C26 as stated: a wait_for_confirmation that finds no terminal receipt in the
\* cache (a miss, or a cached pending receipt) sends a live fetch, and every
\* returned receipt or transaction failure of a wait is read off a receipt
\* fetched in that call, unless the cache held a terminal receipt at the call.
C26_CacheAdvisory ==
    [][\A w \in Waiters :
          /\ \A tx_id \in TxIds : Revalidating(w, tx_id) => LiveFetch(w)
          /\ Settles(w) => FromFetch(w) \/ FromTerminalCache(w)]_vars

\* C26, amended: the live fetch is sent when the configured timeout is
\* positive; with a timeout of zero or less the call raises TimeoutError and
\* fetches nothing.  Either way the cached pending receipt decides nothing.
C26_CacheAdvisoryWithinTimeout ==
    [][\A w \in Waiters :
          /\ \A tx_id \in TxIds :
                Revalidating(w, tx_id) =>
                    IF config.confirmation_timeout > 0
                    THEN LiveFetch(w)
                    ELSE /\ wait'[w].outcome = Raise("TimeoutError", "")
                         /\ gateway' = gateway
          /\ Settles(w) => FromFetch(w) \/ FromTerminalCache(w)]_vars

\* A call made this second found a pending receipt cached for its id, put
\* there by a wait that timed out, and has sent its first fetch.
C26_Witness ==
    /\ \E w \in Waiters, v \in Waiters :
          /\ wait[w].pc = "fetching" /\ wait[w].kind = "client" /\ wait[w].polls = 1
          /\ wait[w].called_at = now
          /\ \E cached \in transaction_cache[wait[w].tx_id] : ~TerminalReceipt(cached)
          /\ wait[v].kind = "client" /\ wait[v].tx_id = wait[w].tx_id
          /\ wait[v].outcome = Raise("TimeoutError", "") /\ wait[v].polls > 0

\* The success receipt an answer to a receipt fetch carries, if any.
SuccessReceipts(resp) == {r \in get_transaction_receipt(resp) : r.success}

\* C27: when every answer a wait_for_confirmation has read so far (k of them)
\* was a pending receipt or no receipt, and the answer to its next fetch is a
\* success receipt, the wait returns that receipt with k + 1 fetches sent and
\* none in flight; once ended it sends no fetch unless it is called again.
C27_ReturnsAfterKPlusOnePolls ==
    [][\A w \in Waiters :
          /\ \A resp \in ClientResponses :
                (/\ ClientReceipt(w, resp)
                 /\ ~wait[w].saw_terminal
                 /\ SuccessReceipts(resp) # {})
                    => /\ wait'[w].pc = "done"
                       /\ wait'[w].outcome \in {Return(r) : r \in SuccessReceipts(resp)}
                       /\ wait'[w].polls = wait[w].answers + 1
                       /\ \A r \in gateway' : r.by # w
          /\ (Done(w) /\ ClientWait(w))
                => \/ wait'[w].polls = wait[w].polls /\ gateway' = gateway
                   \/ Callable(w) /\ wait'[w].answers = 0]_vars

\* A wait has returned a success receipt on its third fetch, after two
\* fetches that showed nothing final.
C27_Witness ==
    \E w \in Waiters :
        /\ ClientWait(w) /\ Done(w) /\ wait[w].outcome.type = "return"
        /\ wait[w].polls = 3 /\ wait[w].answers = 3 /\ wait[w].status = "success"

\* The chain wait of w is at its first poll: one fetch sent, no answer read,
\* no sleep started.
FirstPoll(w) ==
    /\ ChainWaiting(w) /\ wait[w].pc = "fetching"
    /\ wait[w].polls = 1 /\ wait[w].answers = 0 /\ wait[w].wake = 0

\* C28: when the answer to the first poll of a chain wait carries a
\* transaction with at least the confirmations asked for, the wait returns
\* that transaction on this poll: one fetch sent, no sleep before it and none
\* started by it.
C28_FirstPollReturns ==
    [][\A w \in Waiters, resp \in ChainResponses :
          (/\ FirstPoll(w)
           /\ ChainTx(w, resp)
           /\ resp \in Enough(wait[w].confirmations))
              => /\ wait'[w].pc = "done"
                 /\ wait'[w].outcome = Return(CHOOSE t \in resp.result : TRUE)
                 /\ wait'[w].polls = 1
                 /\ wait'[w].wake = 0]_vars

\* A currency-chain wait for two confirmations returned on its first poll a
\* transaction with exactly two confirmations, in the second it was called.
C28_Witness ==
    \E w \in Waiters :
        /\ wait[w].kind = "currency" /\ Done(w) /\ wait[w].confirmations = 2
        /\ wait[w].polls = 1 /\ wait[w].answers = 1 /\ now = 0
        /\ wait[w].outcome.type = "return"
        /\ \A t \in wait[w].outcome.value : t.confirmations = 2

\* The dchat_* submissions of w that are in flight in gateway g.
Submissions(g, w) == {r \in g : r.by = w /\ r.method \in SubmitMethods}

\* The facade call of w is under way: submitted, not yet ended.
InFacade(w) == wait[w].submitted > 0 /\ wait[w].pc \notin {"idle", "done"}

\* C29: a UserManager facade operation sends one submission and no other
\* while it runs; when the submission returns an id it waits for that id and
\* no other; it hands out a response only in the step in which that wait
\* returns a receipt, with the submitted id as tx_id and the receipt's success
\* as on_chain_confirmed; a submission or a wait that raises leaves no response.
C29_FacadeReportsAfterWait ==
    [][\A w \in Waiters :
          /\ \A m \in SubmitMethods :
                Submit(w, m) =>
                    /\ Submissions(gateway', w) = {[by |-> w, method |-> m, tx_id |-> "None"]}
                    /\ wait'[w].submitted = 1 /\ wait'[w].response = None
          /\ InFacade(w) =>
                /\ Submissions(gateway', w) \subseteq Submissions(gateway, w)
                /\ wait'[w].submitted = 1
                /\ wait[w].pc # "submitting" => wait'[w].tx_id = wait[w].tx_id
                /\ \A r \in gateway' \ gateway : r.by = w => r.tx_id = wait'[w].tx_id
          /\ \A resp \in SubmitResponses :
                Submitted(w, resp) =>
                    /\ Submissions(gateway', w) = {}
                    /\ IF submit_transaction(resp).type = "return"
                       THEN wait'[w].tx_id = resp.tx_id
                       ELSE /\ wait'[w].pc = "done" /\ wait'[w].response = None
                            /\ \A r \in gateway' : r.by # w
          /\ wait'[w].submitted > 0 =>
                IF wait'[w].pc = "done" /\ wait'[w].outcome.type = "return"
                   /\ wait'[w].tx_id # "None"
                THEN \E receipt \in wait'[w].outcome.value :
                        wait'[w].response =
                            {[tx_id |-> wait'[w].tx_id,
                              on_chain_confirmed |-> receipt.success]}
                ELSE wait'[w].response = None]_vars

\* A facade has handed out its response after the second poll of its wait
\* returned a success receipt: the submitted id, confirmed on chain.
C29_Witness ==
    \E w \in Waiters :
        /\ wait[w].submitted = 1 /\ Done(w) /\ wait[w].polls = 2
        /\ wait[w].response = {[tx_id |-> wait[w].tx_id, on_chain_confirmed |-> TRUE]}

\* The call of w is in its wait loop.
Polling(w) == wait[w].pc \in {"fetching", "sleeping"}

\* The three ways a wait ends: a returned result, a failure, a timeout.
TerminalOutcomes == {"return", "Exception", "RuntimeError", "TimeoutError"}

\* C30: whatever the ledger or the bridge answers, a wait that is in its loop
\* ends, and an ended wait has one outcome: a returned result, a failure or
\* TimeoutError.
C30_EveryWaitEnds ==
    /\ \A w \in Waiters : Polling(w) ~> Done(w)
    /\ [](\A w \in Waiters : Done(w) => wait[w].outcome.type \in TerminalOutcomes)

\* A bridge wait on which every answer showed a status that is not final has
\* ended in TimeoutError after two polls.
C30_Witness ==
    \E w \in Waiters :
        /\ BridgeWait(w) /\ Done(w) /\ wait[w].outcome = Raise("TimeoutError", "")
        /\ wait[w].polls >= 2 /\ wait[w].answers = wait[w].polls
        /\ ~wait[w].saw_terminal /\ ~wait[w].saw_error

\* The behaviour follows the test ledger.
OnLedger == client = "MockBlockchainPython"

\* C31: the current block of the test ledger is 1 plus the sum of the counts
\* advanced since it was new, and every transaction carries as block_height
\* the current block of the moment it was submitted, whatever was advanced
\* since.
C31_BlockHeightTracking ==
    OnLedger =>
        /\ ledger.current_block = 1 + calls.advanced
        /\ DOMAIN ledger.transactions = DOMAIN calls.submitted
        /\ \A i \in DOMAIN ledger.transactions :
              ledger.transactions[i].block_height = calls.submitted[i].current_block

\* The ledger went back a block and forward again: a transaction submitted at
\* block 1 and one submitted at block 3 keep their heights at block 2.
C31_Witness ==
    /\ OnLedger
    /\ Len(ledger.transactions) = 2
    /\ ledger.current_block = 2 /\ calls.advanced = 1
    /\ ledger.transactions[1].block_height = 1
    /\ ledger.transactions[2].block_height = 3

\* The places in the order of submission of the submit_transaction calls made
\* by sender, and of those made with tx_type.
SubmittedBy(c, sender) == {i \in DOMAIN c.submitted : c.submitted[i].sender = sender}
SubmittedAs(c, tx_type) == {i \in DOMAIN c.submitted : c.submitted[i].tx_type = tx_type}

\* The transactions of ledger l at the places ids, in the order of submission.
Picked(l, ids) ==
    LET on(tx) == \E i \in ids : l.transactions[i] = tx
    IN  SelectSeq(l.transactions, on)

\* On ledger l after the calls c every filter returns the transactions of the
\* calls with that sender or type and no other, as many as there were such
\* calls, and every submitted transaction is found under its id with the type
\* and the sender of its call.
Filtered(l, c) ==
    /\ \A sender \in Senders :
          LET found == get_transactions_by_sender(l, sender)
          IN  /\ Len(found) = Cardinality(SubmittedBy(c, sender))
              /\ found = Picked(l, SubmittedBy(c, sender))
              /\ \A k \in DOMAIN found : found[k].sender = sender
    /\ \A tx_type \in TxTypes :
          LET found == get_transactions_by_type(l, tx_type)
          IN  /\ Len(found) = Cardinality(SubmittedAs(c, tx_type))
              /\ found = Picked(l, SubmittedAs(c, tx_type))
              /\ \A k \in DOMAIN found : found[k].tx_type = tx_type
    /\ \A i \in DOMAIN c.submitted :
          \E tx \in get_transaction(l, i) :
              tx.tx_type = c.submitted[i].tx_type /\ tx.sender = c.submitted[i].sender

\* C32: after every call on the test ledger the filters by sender and by type
\* return exactly the transactions submitted with that sender or type, in the
\* number of those calls, and get_transaction finds each with its type and
\* sender; a submission leaves what the filter of every other sender returns
\* as it was.
C32_FiltersExact ==
    [][OnLedger =>
          /\ Filtered(ledger, calls) /\ Filtered(ledger', calls')
          /\ \A tx_type \in TxTypes, sender \in Senders :
                SubmitTransaction(tx_type, sender) =>
                    \A other \in Senders \ {sender} :
                        get_transactions_by_sender(ledger', other)
                            = get_transactions_by_sender(ledger, other)]_vars

\* alice and bob have each submitted one transaction, of different types, and
\* the ledger has advanced since: each filter finds one of the two.
C32_Witness ==
    /\ OnLedger
    /\ Len(calls.submitted) = 2 /\ calls.advanced = 1
    /\ calls.submitted[1].sender = "alice" /\ calls.submitted[2].sender = "bob"
    /\ calls.submitted[1].tx_type # calls.submitted[2].tx_type
    /\ Len(get_transactions_by_sender(ledger, "bob")) = 1

\* C33: when wait_for_confirmation fetches a receipt with success false and
\* an error that is None or empty, it stores the receipt in the cache under
\* the id, ends in nothing and sleeps the poll interval before the next test
\* of the loop; when it fetches a receipt with success true it stores it and
\* returns it, whatever the error of the receipt.
C33_PendingAndSuccessFirst ==
    [][\A w \in Waiters, resp \in ClientResponses :
          ClientReceipt(w, resp) =>
              \A receipt \in get_transaction_receipt(resp) :
                  /\ (~receipt.success /\ ~Truthy(receipt.error)) =>
                        /\ transaction_cache'[wait[w].tx_id] = {receipt}
                        /\ wait'[w].outcome = NoOutcome
                        /\ wait'[w].pc = "sleeping"
                        /\ wait'[w].wake = now + ClientPollInterval
                  /\ receipt.success =>
                        /\ transaction_cache'[wait[w].tx_id] = {receipt}
                        /\ wait'[w].pc = "done"
                        /\ wait'[w].outcome = Return(receipt)]_vars

\* A wait sleeps after a receipt with success false and an empty error, which
\* is in the cache, and an earlier wait has returned a receipt with success
\* true and an error, which is in the cache under the other id.
C33_Witness ==
    \E w \in Waiters :
        /\ ClientWait(w) /\ wait[w].pc = "sleeping" /\ wait[w].tx_id = "t1"
        /\ transaction_cache["t1"] = {[success |-> FALSE, error |-> ""]}
        /\ transaction_cache["t2"] = {[success |-> TRUE, error |-> "e1"]}

\* The step sends a fetch of the wait loop of w: the first of a call, or the
\* next one after a sleep.
SendsPoll(w) ==
    /\ wait'[w].kind # "is_confirmed"
    /\ wait'[w].pc = "fetching" /\ wait[w].pc # "fetching"

\* The time allowed to the wait of frame f has not run out at time t, counted
\* in seconds passed since the call.
BeforeDeadline(f, t) ==
    IF f.kind = "client" THEN t < f.called_at + config.confirmation_timeout
    ELSE (t - f.called_at) * 1000 < f.max_wait_ms

\* What the gateway can answer to the poll of frame f.
Answers(f) ==
    CASE f.kind \in {"client", "is_confirmed"} -> ClientResponses
      [] f.kind = "bridge" -> BridgeResponses
      [] OTHER -> ChainResponses

\* C34: every fetch of a wait loop is sent strictly before the deadline of the
\* wait (the time of the call plus the time allowed); and between two fetches
\* of one wait lies one sleep of the poll interval of the loop, begun when the
\* answer to the first was read: two seconds on BlockchainClient, one second
\* on the chain clients and the bridge.
C34_NoPollAtOrAfterDeadline ==
    [][\A w \in Waiters :
          /\ SendsPoll(w) =>
                /\ BeforeDeadline(wait'[w], now)
                /\ \/ wait'[w].polls = 1 /\ wait[w].pc # "sleeping"
                   \/ /\ wait[w].pc = "sleeping" /\ now >= wait[w].wake
                      /\ wait'[w].polls = wait[w].polls + 1
                      /\ wait[w].answers = wait[w].polls
          /\ \A resp \in Answers(wait[w]) :
                (Answer(w, resp) /\ wait'[w].pc # "done") =>
                    /\ wait'[w].pc = "sleeping"
                    /\ wait'[w].wake = now + Interval(wait[w])
                    /\ \A r \in gateway' : r.by # w]_vars

\* The call that the step makes for w ends at once in TimeoutError and has
\* sent no fetch.
TimesOutUnpolled(w) ==
    /\ wait'[w].pc = "done" /\ wait'[w].outcome = Raise("TimeoutError", "")
    /\ wait'[w].polls = 0
    /\ gateway' = gateway

\* C35: a chain wait or a bridge wait called with max_wait_ms of zero or less
\* raises TimeoutError and sends no fetch, whatever the ledger holds; so does
\* wait_for_confirmation when confirmation_timeout is zero or less, unless the
\* cache holds a terminal receipt for the id, which is then returned, again
\* with no fetch.
C35_NoTimeNoFetch ==
    [][\A w \in Waiters :
          /\ \A kind \in {"chat", "currency"}, tx_id \in TxIds, c \in Thresholds,
                mw \in MaxWaits \cup ExpiredWaits :
                (mw <= 0 /\ ChainWait(w, kind, tx_id, c, mw)) => TimesOutUnpolled(w)
          /\ \A tx_id \in BridgeTxIds, mw \in MaxWaits \cup ExpiredWaits :
                (mw <= 0 /\ WaitForAtomicCompletion(w, tx_id, mw)) => TimesOutUnpolled(w)
          /\ \A tx_id \in TxIds :
                (config.confirmation_timeout <= 0 /\ WaitForConfirmation(w, tx_id)) =>
                    IF \E cached \in transaction_cache[tx_id] : TerminalReceipt(cached)
                    THEN /\ wait'[w].pc = "done" /\ wait'[w].polls = 0
                         /\ wait'[w].outcome \in {Return(cached) :
                                                    cached \in transaction_cache[tx_id]}
                         /\ gateway' = gateway
                    ELSE TimesOutUnpolled(w)]_vars

\* After a wait that returned the receipt of one id, the timeout was set
\* below zero and a wait_for_confirmation for the other id, which is not in
\* the cache, has raised TimeoutError without a fetch.
C35_Witness ==
    \E w \in Waiters :
        /\ config.confirmation_timeout = -1
        /\ ClientWait(w) /\ Done(w) /\ wait[w].polls = 0
        /\ wait[w].outcome = Raise("TimeoutError", "")
        /\ wait[w].tx_id = "t1" /\ transaction_cache["t1"] = None
        /\ transaction_cache["t2"] = {[success |-> TRUE, error |-> "None"]}

\* The step is one of an operation of the client other than the loop of
\* wait_for_confirmation reading a fetched receipt.
OtherOperation(w) ==
    \/ \E tx_id \in TxIds :
          \/ WaitForConfirmation(w, tx_id)
          \/ IsTransactionConfirmed(w, tx_id)
          \/ GetTransactionReceipt(w, tx_id)
    \/ \E resp \in ClientResponses : ConfirmedAnswer(w, resp) \/ ReceiptAnswer(w, resp)
    \/ GetBlockNumber(w)
    \/ \E resp \in BlockNumberResponses : BlockNumberAnswer(w, resp)
    \/ \E m \in SubmitMethods : Submit(w, m)
    \/ \E resp \in SubmitResponses : Submitted(w, resp)
    \/ Wake(w)

\* C36: a step that changes the cache is a wait_for_confirmation(k) reading
\* the answer to its own fetch for k, and it changes the entry of k alone, to
\* the receipt of that answer; every step of get_transaction_receipt,
\* is_transaction_confirmed, get_block_number and the submissions leaves the
\* cache as it was; no step empties an entry.
C36_CacheWrittenOnlyByWait ==
    [][/\ transaction_cache' # transaction_cache =>
             \E w \in Waiters, resp \in ClientResponses :
                 /\ wait[w].kind = "client" /\ wait[w].pc = "fetching"
                 /\ PollRequest(w, wait[w]) \in gateway
                 /\ ClientReceipt(w, resp)
                 /\ get_transaction_receipt(resp) # None
                 /\ transaction_cache' =
                        [transaction_cache EXCEPT ![wait[w].tx_id] =
                                                      get_transaction_receipt(resp)]
       /\ \A w \in Waiters : OtherOperation(w) => transaction_cache' = transaction_cache
       /\ \A id \in TxIds : transaction_cache[id] # None => transaction_cache'[id] # None]_vars

\* With a receipt cached for t1 and none for t2, a get_transaction_receipt for
\* t2 has returned a receipt to its caller: the cache has not taken it.
C36_Witness ==
    \E w \in Waiters :
        /\ wait[w].kind = "receipt" /\ Done(w) /\ wait[w].tx_id = "t2"
        /\ wait[w].outcome = Return({[success |-> TRUE, error |-> "None"]})
        /\ transaction_cache["t1"] # None /\ transaction_cache["t2"] = None

\* The answers that carry a receipt with success true: status 200 and a
\* result that is a success receipt.
SuccessAnswers ==
    {resp \in ClientResponses :
        /\ resp.kind = "http" /\ resp.status = 200
        /\ \E r \in resp.result : r.success}

\* C37: is_transaction_confirmed sends a fetch whatever the cache holds, and
\* whatever the gateway answers (a success, failed or pending receipt, no
\* result, a status other than 200, a network error) it returns a boolean and
\* raises nothing: True exactly when the answer carries a receipt with success
\* true; the cache is neither read nor written.
C37_ConfirmedNeverFails ==
    [][\A w \in Waiters :
          /\ \A tx_id \in TxIds :
                IsTransactionConfirmed(w, tx_id) =>
                    /\ [by |-> w, method |-> "eth_getTransactionReceipt", tx_id |-> tx_id]
                          \in gateway' \ gateway
                    /\ wait'[w].pc = "fetching"
                    /\ transaction_cache' = transaction_cache
          /\ \A resp \in ClientResponses :
                ConfirmedAnswer(w, resp) =>
                    /\ wait'[w].pc = "done"
                    /\ wait'[w].outcome = Return(resp \in SuccessAnswers)
                    /\ transaction_cache' = transaction_cache]_vars

\* is_transaction_confirmed has returned False, on a network error, for an id
\* whose success receipt is in the cache.
C37_Witness ==
    \E w \in Waiters :
        /\ wait[w].kind = "is_confirmed" /\ Done(w) /\ wait[w].saw_error
        /\ wait[w].outcome = Return(FALSE)
        /\ transaction_cache[wait[w].tx_id] = {[success |-> TRUE, error |-> "None"]}

\* On ledger l every transaction is Confirmed and has the threshold plus the
\* blocks passed since its own as confirmations.
Counted(l) ==
    \A i \in DOMAIN l.transactions :
        LET tx == l.transactions[i]
        IN  /\ tx.status = "Confirmed"
            /\ tx.confirmations
                   = l.confirmation_threshold + (l.current_block - tx.block_height)

\* On ledger l no transaction has fewer confirmations than the threshold.
AtThreshold(l) ==
    \A i \in DOMAIN l.transactions :
        l.transactions[i].confirmations >= l.confirmation_threshold

\* C38: before and after every call on the test ledger each transaction has
\* confirmations = confirmation_threshold + (current_block - block_height); a
\* submitted transaction starts Confirmed with the threshold as confirmations;
\* and advancing by a count that is not negative never takes a transaction
\* below the threshold.
C38_ConfirmationsFormula ==
    [][OnLedger =>
          /\ Counted(ledger) /\ Counted(ledger')
          /\ \A tx_type \in TxTypes, sender \in Senders :
                SubmitTransaction(tx_type, sender) =>
                    LET tx == ledger'.transactions[Len(ledger'.transactions)]
                    IN  /\ tx.status = "Confirmed"
                        /\ tx.confirmations = ledger.confirmation_threshold
                        /\ AtThreshold(ledger) => AtThreshold(ledger')
          /\ \A count \in Counts :
                (count >= 0 /\ AdvanceBlocks(count) /\ AtThreshold(ledger))
                    => AtThreshold(ledger')]_vars

\* On a ledger with threshold 6 at block 4, a transaction of block 1 has 9
\* confirmations and one of block 4 has 6.
C38_Witness ==
    /\ OnLedger /\ ledger.confirmation_threshold = 6
    /\ Len(ledger.transactions) = 2 /\ ledger.current_block = 4
    /\ ledger.transactions[1].block_height = 1 /\ ledger.transactions[1].confirmations = 9
    /\ ledger.transactions[2].block_height = 4 /\ ledger.transactions[2].confirmations = 6

=============================================================================
